---- MODULE Spec2Model ----
(***************************************************************************)
(* Voice message summary bot (voice_transcriber.py).                       *)
(*                                                                         *)
(* The model follows the asyncio execution of the two Telethon handlers    *)
(* handle_auto_mode and handle_command_mode and of the pipeline            *)
(* process_voice_message.  Every incoming event is handled by its own task *)
(* (one per update); a task runs without interruption until it reaches an  *)
(* await that really suspends (download_media, send_message,               *)
(* forward_messages, get_reply_message, event.reply).  running is the task *)
(* that holds the event loop (Idle when none does) and suspended is the    *)
(* bag of the tasks waiting in an await.  transcribe_audio and             *)
(* summarize_text use the blocking requests.post and never suspend.        *)
(***************************************************************************)
EXTENDS Integers, Sequences, FiniteSets, Bags, TLC

\* ---------------------------------------------------------------- bounds
MaxEvents == 2
MaxId == 1
MaxLen == 5
MaxLiveEvents == 1
MaxEchoEvents == 1
MaxPosts == 2

\* ------------------------------------------------------ program constants
start_time == 1
SOURCE_CHAT_ID == 1
TRANSCRIBE_COMMAND == <<"s", "t", "t">>

Ids == 1..MaxId
\* the source chat and one other chat
Chats == {SOURCE_CHAT_ID, SOURCE_CHAT_ID + 1}
\* a date before start_time, start_time itself, a date after it
Dates == {start_time - 1, start_time, start_time + 1}
Modes == {"auto", "cmd"}

\* ------------------------------------------------------------------ text
\* str.lower() on the characters used by the inputs
LowerChar(c) == IF c = "S" THEN "s" ELSE IF c = "T" THEN "t" ELSE c

Lower(s) == [i \in 1..Len(s) |-> LowerChar(s[i])]

RECURSIVE LStrip(_)
LStrip(s) == IF Len(s) > 0 /\ Head(s) = " " THEN LStrip(Tail(s)) ELSE s

RECURSIVE RStrip(_)
RStrip(s) ==
    IF Len(s) > 0 /\ s[Len(s)] = " " THEN RStrip(SubSeq(s, 1, Len(s) - 1)) ELSE s

\* str.strip()
Strip(s) == RStrip(LStrip(s))

\* variant: the text is compared without strip()
IsCommand_NoStrip(m) ==
    /\ m.reply_to_msg_id # 0
    /\ m.message # <<>>
    /\ Lower(m.message) = Lower(TRANSCRIBE_COMMAND)

\* the condition of handle_command_mode on the event's message
IsCommand(m) ==
    /\ m.reply_to_msg_id # 0
    /\ m.message # <<>>
    /\ Strip(Lower(m.message)) = Lower(TRANSCRIBE_COMMAND)

\* ---------------------------------------------------------------- inputs
TextSTT == <<" ", "S", "T", "T", " ">>
TextBang == <<"s", "t", "t", "!">>

\* a voice message without caption, not a reply
VoiceEvents ==
    { [id |-> i, chat_id |-> c, voice |-> TRUE, date |-> d,
       message |-> <<>>, reply_to_msg_id |-> 0] :
         i \in Ids, c \in Chats, d \in Dates }

\* a text message, possibly a reply to the message with identifier r
TextEvents ==
    { [id |-> 0, chat_id |-> c, voice |-> FALSE, date |-> start_time + 1,
       message |-> x, reply_to_msg_id |-> r] :
         c \in Chats, x \in {TextSTT, TextBang}, r \in {0} \cup Ids }

Events == VoiceEvents \cup TextEvents

\* every text of at most MaxLen characters over Alphabet, as a reply or not
Alphabet == {" ", "s", "S", "t", "T", "!"}
Texts == UNION {[1..n -> Alphabet] : n \in 0..MaxLen}
KeywordEvents ==
    { [id |-> 0, chat_id |-> SOURCE_CHAT_ID + 1, voice |-> FALSE,
       date |-> start_time + 1, message |-> x, reply_to_msg_id |-> r] :
         x \in Texts, r \in {0, 1} }

\* results of the two adapters: None, the empty string, a non-empty text
None == "None"
AdapterResults == {None, "", "text"}
\* variant: the result is compared with None only
Truthy_NotNone(x) == x # None
Truthy(x) == x \notin {None, ""}

\* transcribe_audio: opening a missing file raises inside the try block
transcribe_audio(fileExists, response) ==
    IF fileExists THEN response ELSE None

\* summarize_text: any exception gives None
summarize_text(response) == response

\* ----------------------------------------------------------------- state
VARIABLES
    AUTO_PROCESS,            \* config.AUTO_PROCESS
    FORWARD_VOICE_MESSAGE,   \* config.FORWARD_VOICE_MESSAGE
    DESTINATION_CHAT_ID,     \* config.DESTINATION_CHAT_ID
    processed_messages,      \* the set of processed message identifiers
    files,                   \* identifiers i whose temp_voice_<i>.ogg exists
    running,                 \* the task holding the event loop, or Idle
    suspended,               \* bag of the tasks suspended in an await
    failedIds,               \* history: identifiers of the runs that failed
    nEvents,                 \* number of events delivered so far
    nPosts                   \* number of own posts that came back as updates

vars == <<AUTO_PROCESS, FORWARD_VOICE_MESSAGE, DESTINATION_CHAT_ID,
          processed_messages, files, running, suspended, failedIds, nEvents,
          nPosts>>

cfg == <<AUTO_PROCESS, FORWARD_VOICE_MESSAGE, DESTINATION_CHAT_ID>>

\* the record of one call of process_voice_message
NoRun ==
    [vid |-> 0, dest |-> 0, fwd |-> FALSE, seen |-> FALSE,
     afterFail |-> FALSE, outcome |-> "none",
     failedAt |-> "none", nDownload |-> 0, nTranscribe |-> 0,
     nSummarize |-> 0, nSend |-> 0, nForward |-> 0, sent |-> 0,
     forwarded |-> 0, made |-> FALSE, marked |-> FALSE,
     transcription |-> None, summary |-> None]

NoEvent ==
    [id |-> 0, chat_id |-> 0, voice |-> FALSE, date |-> 0,
     message |-> <<>>, reply_to_msg_id |-> 0]

\* the task that handles event e, about to execute p; auto and cmd are the
\* pipeline calls made by handle_auto_mode and by handle_command_mode
NewTask(e, p) ==
    [ev |-> e, pc |-> p, mode |-> "none", replied |-> "none",
     nGuidance |-> 0, nError |-> 0, guidance |-> 0, error |-> 0,
     crashed |-> FALSE, auto |-> NoRun, cmd |-> NoRun]

\* no task holds the event loop
Idle == NewTask(NoEvent, "idle")

Init ==
    /\ AUTO_PROCESS \in BOOLEAN
    /\ FORWARD_VOICE_MESSAGE \in BOOLEAN
    /\ DESTINATION_CHAT_ID \in Chats
    /\ processed_messages = {}
    /\ files = {}
    /\ running = Idle
    /\ suspended = EmptyBag
    /\ failedIds = {}
    /\ nEvents = 0
    /\ nPosts = 0

\* the pipeline call task t is executing
Run(t) == IF t.mode = "auto" THEN t.auto ELSE t.cmd

\* task t with the record of its current pipeline call replaced by r
WithRun(t, r) ==
    IF t.mode = "auto" THEN [t EXCEPT !.auto = r] ELSE [t EXCEPT !.cmd = r]

\* task t at p
At(t, p) == [t EXCEPT !.pc = p]

\* the running task goes on as t
Continue(t) == running' = t /\ UNCHANGED suspended

\* the running task reaches an await and is suspended as t
Suspend(t) == running' = Idle /\ suspended' = suspended (+) SetToBag({t})

\* the await of the suspended task t completes and t runs on as u
Resume(t, u) == running' = u /\ suspended' = suspended (-) SetToBag({t})

\* the suspended task t goes from one await into the next as u
Reawait(t, u) ==
    /\ running' = Idle
    /\ suspended' = (suspended (-) SetToBag({t})) (+) SetToBag({u})

Waiting(t, p) == running = Idle /\ BagIn(t, suspended) /\ t.pc = p

\* os.path.exists(audio_path) / os.remove(audio_path)
RemoveIfExists(i) == files' = files \ {i}

\* ------------------------------------------------------- event arrival
\* variant: handle_auto_mode is registered whatever AUTO_PROCESS is
NewMessage_AlwaysAuto(e) ==
    /\ running = Idle
    /\ nEvents < MaxEvents
    /\ nEvents' = nEvents + 1
    /\ IF e.chat_id = SOURCE_CHAT_ID
       THEN Continue(NewTask(e, "handle_auto_mode"))
       ELSE Continue(NewTask(e, "handle_command_mode"))
    /\ UNCHANGED <<cfg, nPosts, failedIds, processed_messages, files>>

\* the platform delivers a new-message event and Telethon starts the task
\* that calls the handlers; handle_auto_mode is registered only when
\* AUTO_PROCESS and receives only the events of SOURCE_CHAT_ID
NewMessage(e) ==
    /\ running = Idle
    /\ nEvents < MaxEvents
    /\ nEvents' = nEvents + 1
    /\ IF AUTO_PROCESS /\ e.chat_id = SOURCE_CHAT_ID
       THEN Continue(NewTask(e, "handle_auto_mode"))
       ELSE Continue(NewTask(e, "handle_command_mode"))
    /\ UNCHANGED <<cfg, nPosts, failedIds, processed_messages, files>>

\* a call of process_voice_message(client, voice_msg, destination, forward)
\* by the listener m of task t
Invoke(t, m, i, d, f) ==
    LET r == [NoRun EXCEPT !.vid = i, !.dest = d, !.fwd = f,
                           !.seen = (i \in processed_messages),
                           !.afterFail = (i \in failedIds),
                           !.outcome = "running"]
        u == [t EXCEPT !.pc = "process_voice_message", !.mode = m,
                       !.replied = IF m = "cmd" THEN "voice" ELSE @]
    IN  IF m = "auto" THEN [u EXCEPT !.auto = r] ELSE [u EXCEPT !.cmd = r]

\* variant: the date test admits a message dated exactly at start_time
handle_auto_mode_AtStart ==
    /\ running.pc = "handle_auto_mode"
    /\ IF running.ev.voice /\ running.ev.date >= start_time
       THEN Continue(Invoke(running, "auto", running.ev.id,
                            DESTINATION_CHAT_ID, FORWARD_VOICE_MESSAGE))
       ELSE Continue(At(running, "handle_command_mode"))
    /\ UNCHANGED <<cfg, nPosts, failedIds, processed_messages, files, nEvents>>

\* if event.message.voice and event.message.date > start_time
handle_auto_mode ==
    /\ running.pc = "handle_auto_mode"
    /\ IF running.ev.voice /\ running.ev.date > start_time
       THEN Continue(Invoke(running, "auto", running.ev.id,
                            DESTINATION_CHAT_ID, FORWARD_VOICE_MESSAGE))
       ELSE Continue(At(running, "handle_command_mode"))
    /\ UNCHANGED <<cfg, nPosts, failedIds, processed_messages, files, nEvents>>

\* --------------------------------------------- process_voice_message
\* variant: the dedup gate is missing
CheckProcessed_NoGate ==
    /\ running.pc = "process_voice_message"
    /\ Suspend(WithRun(At(running, "download_media"),
                       [Run(running) EXCEPT !.nDownload = @ + 1]))
    /\ UNCHANGED <<cfg, nPosts, failedIds, processed_messages, files, nEvents>>

\* variant: only Auto runs consult the ledger
CheckProcessed_AutoOnly ==
    /\ running.pc = "process_voice_message"
    /\ IF Run(running).vid \in processed_messages /\ running.mode = "auto"
       THEN Continue(WithRun(At(running, "return"),
                             [Run(running) EXCEPT !.outcome = "skipped"]))
       ELSE Suspend(WithRun(At(running, "download_media"),
                            [Run(running) EXCEPT !.nDownload = @ + 1]))
    /\ UNCHANGED <<cfg, nPosts, failedIds, processed_messages, files, nEvents>>

\* the dedup gate, then audio_path is set and download_media is awaited
CheckProcessed ==
    /\ running.pc = "process_voice_message"
    /\ IF Run(running).vid \in processed_messages
       THEN Continue(WithRun(At(running, "return"),
                             [Run(running) EXCEPT !.outcome = "skipped"]))
       ELSE Suspend(WithRun(At(running, "download_media"),
                            [Run(running) EXCEPT !.nDownload = @ + 1]))
    /\ UNCHANGED <<cfg, nPosts, failedIds, processed_messages, files, nEvents>>

\* download_media opens audio_path for writing
DownloadOpen(t) ==
    /\ Waiting(t, "download_media")
    /\ Reawait(t, WithRun(At(t, "downloading"), [Run(t) EXCEPT !.made = TRUE]))
    /\ files' = files \cup {Run(t).vid}
    /\ UNCHANGED <<cfg, nPosts, failedIds, processed_messages, nEvents>>

\* download_media returns; a file unlinked meanwhile stays unlinked
DownloadDone(t) ==
    /\ Waiting(t, "downloading")
    /\ Resume(t, At(t, "transcribe"))
    /\ UNCHANGED <<cfg, nPosts, failedIds, processed_messages, files, nEvents>>

\* download_media raises, before or after it opened the file
DownloadFail(t) ==
    /\ \/ Waiting(t, "download_media")
       \/ Waiting(t, "downloading")
    /\ Resume(t, WithRun(At(t, "except"),
                         [Run(t) EXCEPT !.failedAt = "download"]))
    /\ UNCHANGED <<cfg, nPosts, failedIds, processed_messages, files, nEvents>>

\* variant: the transcription failure path leaves the temp file behind
Transcribe_NoRemove(response) ==
    /\ running.pc = "transcribe"
    /\ LET transcription ==
               transcribe_audio(Run(running).vid \in files, response)
           r == [Run(running) EXCEPT !.nTranscribe = @ + 1,
                                     !.transcription = transcription]
       IN  IF ~Truthy(transcription)
           THEN /\ Continue(WithRun(At(running, "return"),
                                    [r EXCEPT !.outcome = "failed",
                                              !.failedAt = "transcribe"]))
                /\ failedIds' = failedIds \cup {r.vid}
                /\ UNCHANGED files
           ELSE /\ Continue(WithRun(At(running, "summarize"), r))
                /\ UNCHANGED <<files, failedIds>>
    /\ UNCHANGED <<cfg, nPosts, processed_messages, nEvents>>

\* variant: a failed transcription is tried a second time
Transcribe_Retry(response) ==
    /\ running.pc = "transcribe"
    /\ LET transcription ==
               transcribe_audio(Run(running).vid \in files, response)
           r == [Run(running) EXCEPT !.nTranscribe = @ + 1,
                                     !.transcription = transcription]
       IN  IF ~Truthy(transcription) /\ Run(running).nTranscribe = 0
           THEN /\ Continue(WithRun(running, r))
                /\ UNCHANGED <<files, failedIds>>
           ELSE IF ~Truthy(transcription)
           THEN /\ RemoveIfExists(r.vid)
                /\ Continue(WithRun(At(running, "return"),
                                    [r EXCEPT !.outcome = "failed",
                                              !.failedAt = "transcribe"]))
                /\ failedIds' = failedIds \cup {r.vid}
           ELSE /\ Continue(WithRun(At(running, "summarize"), r))
                /\ UNCHANGED <<files, failedIds>>
    /\ UNCHANGED <<cfg, nPosts, processed_messages, nEvents>>

\* transcription = await transcribe_audio(audio_path); if not transcription
Transcribe(response) ==
    /\ running.pc = "transcribe"
    /\ LET transcription ==
               transcribe_audio(Run(running).vid \in files, response)
           r == [Run(running) EXCEPT !.nTranscribe = @ + 1,
                                     !.transcription = transcription]
       IN  IF ~Truthy(transcription)
           THEN /\ RemoveIfExists(r.vid)
                /\ Continue(WithRun(At(running, "return"),
                                    [r EXCEPT !.outcome = "failed",
                                              !.failedAt = "transcribe"]))
                /\ failedIds' = failedIds \cup {r.vid}
           ELSE /\ Continue(WithRun(At(running, "summarize"), r))
                /\ UNCHANGED <<files, failedIds>>
    /\ UNCHANGED <<cfg, nPosts, processed_messages, nEvents>>

\* variant: the summary is sent without the "if not summary" test
Summarize_NoCheck(response) ==
    /\ running.pc = "summarize"
    /\ Suspend(WithRun(At(running, "send_message"),
                       [Run(running) EXCEPT !.nSummarize = @ + 1,
                                            !.summary = summarize_text(response),
                                            !.nSend = @ + 1]))
    /\ UNCHANGED <<cfg, nPosts, failedIds, processed_messages, files, nEvents>>

\* summary = await summarize_text(transcription); if not summary;
\* otherwise client.send_message is awaited
Summarize(response) ==
    /\ running.pc = "summarize"
    /\ LET summary == summarize_text(response)
           r == [Run(running) EXCEPT !.nSummarize = @ + 1,
                                     !.summary = summary]
       IN  IF ~Truthy(summary)
           THEN /\ RemoveIfExists(r.vid)
                /\ Continue(WithRun(At(running, "return"),
                                    [r EXCEPT !.outcome = "failed",
                                              !.failedAt = "summarize"]))
                /\ failedIds' = failedIds \cup {r.vid}
           ELSE /\ Suspend(WithRun(At(running, "send_message"),
                                   [r EXCEPT !.nSend = @ + 1]))
                /\ UNCHANGED <<files, failedIds>>
    /\ UNCHANGED <<cfg, nPosts, processed_messages, nEvents>>

\* send_message returns: the summary is in the destination chat
SendDone(t) ==
    /\ Waiting(t, "send_message")
    /\ Resume(t, WithRun(At(t, "forward_voice"), [Run(t) EXCEPT !.sent = @ + 1]))
    /\ UNCHANGED <<cfg, nPosts, failedIds, processed_messages, files, nEvents>>

\* send_message raises
SendFail(t) ==
    /\ Waiting(t, "send_message")
    /\ Resume(t, WithRun(At(t, "except"), [Run(t) EXCEPT !.failedAt = "send"]))
    /\ UNCHANGED <<cfg, nPosts, failedIds, processed_messages, files, nEvents>>

\* variant: the audio is forwarded whatever forward_voice is
ForwardVoice_Always ==
    /\ running.pc = "forward_voice"
    /\ Suspend(WithRun(At(running, "forward_messages"),
                       [Run(running) EXCEPT !.nForward = @ + 1]))
    /\ UNCHANGED <<cfg, nPosts, failedIds, processed_messages, files, nEvents>>

\* if forward_voice: await client.forward_messages(...)
ForwardVoice ==
    /\ running.pc = "forward_voice"
    /\ IF Run(running).fwd
       THEN Suspend(WithRun(At(running, "forward_messages"),
                            [Run(running) EXCEPT !.nForward = @ + 1]))
       ELSE Continue(At(running, "cleanup"))
    /\ UNCHANGED <<cfg, nPosts, failedIds, processed_messages, files, nEvents>>

\* forward_messages returns: the audio is in the destination chat
ForwardDone(t) ==
    /\ Waiting(t, "forward_messages")
    /\ Resume(t, WithRun(At(t, "cleanup"), [Run(t) EXCEPT !.forwarded = @ + 1]))
    /\ UNCHANGED <<cfg, nPosts, failedIds, processed_messages, files, nEvents>>

\* forward_messages raises
ForwardFail(t) ==
    /\ Waiting(t, "forward_messages")
    /\ Resume(t, WithRun(At(t, "except"), [Run(t) EXCEPT !.failedAt = "forward"]))
    /\ UNCHANGED <<cfg, nPosts, failedIds, processed_messages, files, nEvents>>

\* variant: the temporary file is not removed on the success path
CleanUp_Skip ==
    /\ running.pc = "cleanup"
    /\ Continue(At(running, "mark"))
    /\ UNCHANGED <<cfg, nPosts, failedIds, processed_messages, files, nEvents>>

\* clean up temporary file
CleanUp ==
    /\ running.pc = "cleanup"
    /\ RemoveIfExists(Run(running).vid)
    /\ Continue(At(running, "mark"))
    /\ UNCHANGED <<cfg, nPosts, failedIds, processed_messages, nEvents>>

\* processed_messages.add(voice_msg.id)
MarkProcessed ==
    /\ running.pc = "mark"
    /\ processed_messages' = processed_messages \cup {Run(running).vid}
    /\ Continue(WithRun(At(running, "return"),
                        [Run(running) EXCEPT !.marked = TRUE,
                                             !.outcome = "done"]))
    /\ UNCHANGED <<cfg, nPosts, failedIds, files, nEvents>>

\* variant: after an exception the run is started again
Except_Retry ==
    /\ running.pc = "except"
    /\ RemoveIfExists(Run(running).vid)
    /\ failedIds' = failedIds \cup {Run(running).vid}
    /\ Continue(WithRun(At(running, "process_voice_message"),
                        [NoRun EXCEPT !.vid = Run(running).vid,
                                      !.dest = Run(running).dest,
                                      !.fwd = Run(running).fwd,
                                      !.seen = Run(running).seen,
                                      !.afterFail = Run(running).afterFail,
                                      !.outcome = "running"]))
    /\ UNCHANGED <<cfg, nPosts, processed_messages, nEvents>>

\* variant: the exception is logged and raised again to the listener
Except_Reraise ==
    /\ running.pc = "except"
    /\ RemoveIfExists(Run(running).vid)
    /\ failedIds' = failedIds \cup {Run(running).vid}
    /\ Continue(WithRun([running EXCEPT !.pc = "handler_end",
                                        !.crashed = TRUE],
                        [Run(running) EXCEPT !.outcome = "failed"]))
    /\ UNCHANGED <<cfg, nPosts, processed_messages, nEvents>>

\* variant: the exception path also marks the message as processed
Except_Marks ==
    /\ running.pc = "except"
    /\ RemoveIfExists(Run(running).vid)
    /\ processed_messages' = processed_messages \cup {Run(running).vid}
    /\ failedIds' = failedIds \cup {Run(running).vid}
    /\ Continue(WithRun(At(running, "return"),
                        [Run(running) EXCEPT !.outcome = "failed",
                                             !.marked = TRUE]))
    /\ UNCHANGED <<cfg, nPosts, nEvents>>

\* except Exception: log, remove the temporary file
Except ==
    /\ running.pc = "except"
    /\ RemoveIfExists(Run(running).vid)
    /\ failedIds' = failedIds \cup {Run(running).vid}
    /\ Continue(WithRun(At(running, "return"),
                        [Run(running) EXCEPT !.outcome = "failed"]))
    /\ UNCHANGED <<cfg, nPosts, processed_messages, nEvents>>

\* process_voice_message returns to the listener that called it; after
\* handle_auto_mode the same task calls handle_command_mode
Return ==
    /\ running.pc = "return"
    /\ IF running.mode = "auto"
       THEN Continue(At(running, "handle_command_mode"))
       ELSE Continue(At(running, "handler_end"))
    /\ UNCHANGED <<cfg, nPosts, failedIds, processed_messages, files, nEvents>>

\* -------------------------------------------------- handle_command_mode
\* the keyword test, then get_reply_message is awaited
handle_command_mode ==
    /\ running.pc = "handle_command_mode"
    /\ IF IsCommand(running.ev)
       THEN Suspend(At(running, "get_reply_message"))
       ELSE Continue(At(running, "handler_end"))
    /\ UNCHANGED <<cfg, nPosts, failedIds, processed_messages, files, nEvents>>

\* variant: the command path uses the configured destination and flag
ReplyIsVoice_Configured(t) ==
    /\ Waiting(t, "get_reply_message")
    /\ Resume(t, Invoke(t, "cmd", t.ev.reply_to_msg_id, DESTINATION_CHAT_ID,
                        FORWARD_VOICE_MESSAGE))
    /\ UNCHANGED <<cfg, nPosts, failedIds, processed_messages, files, nEvents>>

\* get_reply_message returns a voice message: the pipeline is called
ReplyIsVoice(t) ==
    /\ Waiting(t, "get_reply_message")
    /\ Resume(t, Invoke(t, "cmd", t.ev.reply_to_msg_id, t.ev.chat_id, FALSE))
    /\ UNCHANGED <<cfg, nPosts, failedIds, processed_messages, files, nEvents>>

\* variant: the replied-to message is processed without the voice test
ReplyNotVoice_Process(t) ==
    /\ Waiting(t, "get_reply_message")
    /\ Resume(t, [Invoke(t, "cmd", t.ev.reply_to_msg_id, t.ev.chat_id, FALSE)
                     EXCEPT !.replied = "other"])
    /\ UNCHANGED <<cfg, nPosts, failedIds, processed_messages, files, nEvents>>

\* get_reply_message returns None or a message without voice: event.reply
\* with the usage hint is awaited
ReplyNotVoice(t) ==
    /\ Waiting(t, "get_reply_message")
    /\ Reawait(t, [t EXCEPT !.pc = "reply_guidance", !.nGuidance = @ + 1,
                            !.replied = "other"])
    /\ UNCHANGED <<cfg, nPosts, failedIds, processed_messages, files, nEvents>>

\* get_reply_message raises: except Exception, event.reply with the
\* failure notice is awaited
ReplyRaises(t) ==
    /\ Waiting(t, "get_reply_message")
    /\ Reawait(t, [t EXCEPT !.pc = "reply_error", !.nError = @ + 1,
                            !.replied = "raised"])
    /\ UNCHANGED <<cfg, nPosts, failedIds, processed_messages, files, nEvents>>

\* event.reply with the usage hint returns
GuidanceDone(t) ==
    /\ Waiting(t, "reply_guidance")
    /\ Resume(t, [t EXCEPT !.pc = "handler_end", !.guidance = @ + 1])
    /\ UNCHANGED <<cfg, nPosts, failedIds, processed_messages, files, nEvents>>

\* event.reply with the usage hint raises: caught by except Exception
GuidanceFail(t) ==
    /\ Waiting(t, "reply_guidance")
    /\ Reawait(t, [t EXCEPT !.pc = "reply_error", !.nError = @ + 1])
    /\ UNCHANGED <<cfg, nPosts, failedIds, processed_messages, files, nEvents>>

\* event.reply with the failure notice returns
ErrorDone(t) ==
    /\ Waiting(t, "reply_error")
    /\ Resume(t, [t EXCEPT !.pc = "handler_end", !.error = @ + 1])
    /\ UNCHANGED <<cfg, nPosts, failedIds, processed_messages, files, nEvents>>

\* event.reply with the failure notice raises inside the except block: the
\* exception leaves the handler
ErrorFail(t) ==
    /\ Waiting(t, "reply_error")
    /\ Resume(t, [t EXCEPT !.pc = "handler_end", !.crashed = TRUE])
    /\ UNCHANGED <<cfg, nPosts, failedIds, processed_messages, files, nEvents>>

\* the handlers of the event have returned: the task and its locals are gone
Finish ==
    /\ running.pc = "handler_end"
    /\ Continue(Idle)
    /\ UNCHANGED <<cfg, nPosts, failedIds, processed_messages, files, nEvents>>

\* --------------------------------------------------------- specification
Waiters == BagToSet(suspended)

Next ==
    \/ \E e \in Events : NewMessage(e)
    \/ handle_auto_mode
    \/ CheckProcessed
    \/ \E t \in Waiters : DownloadOpen(t)
    \/ \E t \in Waiters : DownloadDone(t)
    \/ \E t \in Waiters : DownloadFail(t)
    \/ \E r \in AdapterResults : Transcribe(r)
    \/ \E r \in AdapterResults : Summarize(r)
    \/ \E t \in Waiters : SendDone(t)
    \/ \E t \in Waiters : SendFail(t)
    \/ ForwardVoice
    \/ \E t \in Waiters : ForwardDone(t)
    \/ \E t \in Waiters : ForwardFail(t)
    \/ CleanUp
    \/ MarkProcessed
    \/ Except
    \/ Return
    \/ handle_command_mode
    \/ \E t \in Waiters : ReplyIsVoice(t)
    \/ \E t \in Waiters : ReplyNotVoice(t)
    \/ \E t \in Waiters : ReplyRaises(t)
    \/ \E t \in Waiters : GuidanceDone(t)
    \/ \E t \in Waiters : GuidanceFail(t)
    \/ \E t \in Waiters : ErrorDone(t)
    \/ \E t \in Waiters : ErrorFail(t)
    \/ Finish

Spec == Init /\ [][Next]_vars

\* a step of a task: the event loop runs the task that is ready, and every
\* awaited platform call eventually returns or raises
Progress == Next /\ nEvents' = nEvents

\* the behaviours with at most MaxLiveEvents events, under fair progress
NextLive ==
    \/ \E e \in Events : nEvents < MaxLiveEvents /\ NewMessage(e)
    \/ Progress

SpecFair == Init /\ [][NextLive]_vars /\ WF_vars(Progress)

\* ---------------------------------------------------------- own posts
\* events.NewMessage() is registered without incoming=True, so the messages
\* the client posts itself match the filters of both listeners when their
\* updates arrive.  A post gets a fresh identifier and a date after
\* start_time; its update waits in the update queue until it is dispatched.
\* Posts beyond MaxPosts are not followed.
OwnPost(c, isVoice, text, r) ==
    [id |-> MaxId + nPosts + 1, chat_id |-> c, voice |-> isVoice,
     date |-> start_time + 1, message |-> text, reply_to_msg_id |-> r]

\* f"Voice Message Summary:\n\n{summary}" with the summary "stt"
SummaryText == <<"!", " ", "s", "t", "t">>
\* the usage hint and the failure notice
ReplyText == <<"!", "s", "t", "t", "!">>

\* the await of t completes, t runs on as u, and the update of the post e
\* is queued
ResumePosting(t, u, e) ==
    /\ running' = u
    /\ IF nPosts < MaxPosts
       THEN /\ suspended' = (suspended (-) SetToBag({t}))
                               (+) SetToBag({NewTask(e, "update_queue")})
            /\ nPosts' = nPosts + 1
       ELSE /\ suspended' = suspended (-) SetToBag({t})
            /\ UNCHANGED nPosts

\* send_message returns: the summary is a new message of the destination
SendPosted(t) ==
    /\ Waiting(t, "send_message")
    /\ ResumePosting(t, WithRun(At(t, "forward_voice"),
                                [Run(t) EXCEPT !.sent = @ + 1]),
                     OwnPost(Run(t).dest, FALSE, SummaryText, 0))
    /\ UNCHANGED <<cfg, failedIds, processed_messages, files, nEvents>>

\* forward_messages returns: the forwarded audio is a new voice message of
\* the destination
ForwardPosted(t) ==
    /\ Waiting(t, "forward_messages")
    /\ ResumePosting(t, WithRun(At(t, "cleanup"),
                                [Run(t) EXCEPT !.forwarded = @ + 1]),
                     OwnPost(Run(t).dest, TRUE, <<>>, 0))
    /\ UNCHANGED <<cfg, failedIds, processed_messages, files, nEvents>>

\* event.reply with the usage hint returns: the hint is a reply in the chat
\* of the command
GuidancePosted(t) ==
    /\ Waiting(t, "reply_guidance")
    /\ ResumePosting(t, [t EXCEPT !.pc = "handler_end", !.guidance = @ + 1],
                     OwnPost(t.ev.chat_id, FALSE, ReplyText, 1))
    /\ UNCHANGED <<cfg, failedIds, processed_messages, files, nEvents>>

\* event.reply with the failure notice returns
ErrorPosted(t) ==
    /\ Waiting(t, "reply_error")
    /\ ResumePosting(t, [t EXCEPT !.pc = "handler_end", !.error = @ + 1],
                     OwnPost(t.ev.chat_id, FALSE, ReplyText, 1))
    /\ UNCHANGED <<cfg, failedIds, processed_messages, files, nEvents>>

\* the update of an own post is dispatched to the registered listeners
DispatchOwn(t) ==
    /\ Waiting(t, "update_queue")
    /\ IF AUTO_PROCESS /\ t.ev.chat_id = SOURCE_CHAT_ID
       THEN Resume(t, At(t, "handle_auto_mode"))
       ELSE Resume(t, At(t, "handle_command_mode"))
    /\ UNCHANGED <<cfg, nPosts, failedIds, processed_messages, files, nEvents>>

NextEcho ==
    \/ \E e \in Events : nEvents < MaxEchoEvents /\ NewMessage(e)
    \/ \E t \in Waiters : DispatchOwn(t)
    \/ handle_auto_mode
    \/ CheckProcessed
    \/ \E t \in Waiters : DownloadOpen(t)
    \/ \E t \in Waiters : DownloadDone(t)
    \/ \E t \in Waiters : DownloadFail(t)
    \/ \E r \in AdapterResults : Transcribe(r)
    \/ \E r \in AdapterResults : Summarize(r)
    \/ \E t \in Waiters : SendPosted(t)
    \/ \E t \in Waiters : SendFail(t)
    \/ ForwardVoice
    \/ \E t \in Waiters : ForwardPosted(t)
    \/ \E t \in Waiters : ForwardFail(t)
    \/ CleanUp
    \/ MarkProcessed
    \/ Except
    \/ Return
    \/ handle_command_mode
    \/ \E t \in Waiters : ReplyIsVoice(t)
    \/ \E t \in Waiters : ReplyNotVoice(t)
    \/ \E t \in Waiters : ReplyRaises(t)
    \/ \E t \in Waiters : GuidancePosted(t)
    \/ \E t \in Waiters : GuidanceFail(t)
    \/ \E t \in Waiters : ErrorPosted(t)
    \/ \E t \in Waiters : ErrorFail(t)
    \/ Finish

SpecEcho == Init /\ [][NextEcho]_vars

\* the keyword test of handle_command_mode on every text of KeywordEvents:
\* the task of one text event is about to call handle_command_mode
InitText ==
    /\ AUTO_PROCESS = FALSE
    /\ FORWARD_VOICE_MESSAGE = FALSE
    /\ DESTINATION_CHAT_ID = SOURCE_CHAT_ID
    /\ processed_messages = {}
    /\ files = {}
    /\ \E e \in KeywordEvents : running = NewTask(e, "handle_command_mode")
    /\ suspended = EmptyBag
    /\ failedIds = {}
    /\ nEvents = 1
    /\ nPosts = 0

NextText == handle_command_mode \/ Finish

SpecText == InitText /\ [][NextText]_vars

TypeOK ==
    /\ processed_messages \subseteq Ids
    /\ files \subseteq Ids
    /\ failedIds \subseteq Ids
    /\ nEvents \in 0..MaxEvents
    /\ BagCardinality(suspended) + (IF running = Idle THEN 0 ELSE 1) <= nEvents

\* ------------------------------------------------------------- properties
Tasks == Waiters \cup {running}
AllRuns == UNION {{t.auto, t.cmd} : t \in Tasks}
InPipeline(t) ==
    t.pc \in {"process_voice_message", "download_media", "downloading",
              "transcribe", "summarize", "send_message", "forward_voice",
              "forward_messages", "cleanup", "mark", "except", "return"}
AtReturn == running.pc = "return"

\* the run made no call and had no effect
Untouched(r) ==
    /\ r.nDownload = 0 /\ r.nTranscribe = 0 /\ r.nSummarize = 0
    /\ r.nSend = 0 /\ r.nForward = 0 /\ r.sent = 0 /\ r.forwarded = 0
    /\ ~r.made /\ ~r.marked
    /\ r.outcome \in {"running", "skipped"}

\* every stage of the run succeeded
Succeeded(r) ==
    /\ r.nDownload = 1 /\ r.failedAt = "none"
    /\ Truthy(r.transcription) /\ Truthy(r.summary)
    /\ r.sent = 1
    /\ r.fwd => r.forwarded = 1

\* the transcription adapter or the summarization adapter was called and
\* gave no usable text
AdapterFailed(r) ==
    \/ r.nTranscribe >= 1 /\ ~Truthy(r.transcription)
    \/ r.nSummarize >= 1 /\ ~Truthy(r.summary)

\* C1: a pipeline invocation on a message whose identifier is in the ledger
\* downloads nothing, calls no adapter, sends and forwards nothing, creates
\* no temp file, and its steps leave the ledger and the files unchanged
C1_NoOpWhenProcessed ==
    /\ [](\A r \in AllRuns : r.seen => Untouched(r))
    /\ [][ (InPipeline(running) /\ Run(running).seen)
              => /\ processed_messages' = processed_messages
                 /\ files' = files ]_vars

C1_Witness ==
    /\ AtReturn /\ Run(running).seen /\ Run(running).outcome = "skipped"
    /\ Run(running).vid \in processed_messages

\* C2: a run on a message not in the ledger adds the identifier iff download,
\* transcription, summarization, summary send and (when forward is set)
\* forward all succeeded in that run; the ledger changes in no other way
C2_MarkedIffSucceeded ==
    /\ []((AtReturn /\ ~Run(running).seen)
             => /\ Run(running).marked <=> Succeeded(Run(running))
                /\ Run(running).marked
                     => Run(running).vid \in processed_messages)
    /\ [][ processed_messages' # processed_messages
             => /\ running.pc = "mark"
                /\ Succeeded(Run(running))
                /\ ~Run(running).marked /\ Run(running').marked
                /\ processed_messages' =
                      processed_messages \cup {Run(running).vid} ]_vars

C2_Witness ==
    /\ AtReturn /\ ~Run(running).seen
    /\ Run(running).sent = 1 /\ Run(running).fwd
    /\ Run(running).failedAt = "forward"
    /\ ~Run(running).marked /\ Run(running).vid \notin processed_messages

\* C3: when a run ends as failed or done its temp file does not exist, and
\* the temp file of an identifier exists only while some run for that
\* identifier is still in progress
C3_TempFileAbsent ==
    /\ (AtReturn /\ Run(running).outcome \in {"failed", "done"})
          => Run(running).vid \notin files
    /\ \A i \in files :
         \E r \in AllRuns : r.vid = i /\ r.outcome = "running"

\* two runs for one identifier overlapped, one failed, the other is done,
\* both have ended and no file is left
C3_Witness ==
    /\ AtReturn /\ Run(running).outcome = "done" /\ Run(running).made
    /\ ~Run(running).afterFail /\ Run(running).vid \in failedIds
    /\ suspended = EmptyBag
    /\ files = {}

\* C4: once an identifier is in the ledger no run delivers a summary for it
\* and no run adds it again
C4_AtMostOnceOnSuccess ==
    [][ /\ (running = Idle /\ running'.pc = "forward_voice")
              => Run(running').vid \notin processed_messages
        /\ running.pc = "mark"
              => Run(running).vid \notin processed_messages ]_vars

\* C5: an Auto run in which every stage succeeds delivers exactly one summary
\* to the configured destination, exactly one forwarded audio when the
\* forward flag is set and none otherwise, and leaves the identifier in the
\* ledger; an Auto run on an identifier already in the ledger sends nothing
C5_AutoSuccess ==
    (running.mode = "auto" /\ AtReturn)
       => /\ (~running.auto.seen /\ running.auto.failedAt = "none")
               => /\ running.auto.outcome = "done"
                  /\ running.auto.vid = running.ev.id
                  /\ running.auto.dest = DESTINATION_CHAT_ID
                  /\ running.auto.nSend = 1 /\ running.auto.sent = 1
                  /\ running.auto.forwarded =
                        (IF FORWARD_VOICE_MESSAGE THEN 1 ELSE 0)
                  /\ running.auto.nForward = running.auto.forwarded
                  /\ running.auto.vid \in processed_messages
          /\ running.auto.seen
               => /\ running.auto.outcome = "skipped"
                  /\ running.auto.nSend = 0 /\ running.auto.sent = 0
                  /\ running.auto.nForward = 0 /\ running.auto.forwarded = 0

C5_Witness ==
    /\ running.mode = "auto" /\ AtReturn
    /\ running.auto.outcome = "done" /\ FORWARD_VOICE_MESSAGE
    /\ running.auto.sent = 1 /\ running.auto.forwarded = 1

\* C6: a run whose transcription or summarization fails ends as failed,
\* has sent and forwarded nothing, has called no later stage, has not added
\* the identifier (the failing step leaves the ledger as it was), and its
\* temp file is removed
C6_AdapterFailure ==
    /\ []((AtReturn /\ AdapterFailed(Run(running)))
             => /\ Run(running).outcome = "failed"
                /\ Run(running).failedAt \in {"transcribe", "summarize"}
                /\ Run(running).nSend = 0 /\ Run(running).sent = 0
                /\ Run(running).nForward = 0 /\ Run(running).forwarded = 0
                /\ ~Truthy(Run(running).transcription)
                     => Run(running).nSummarize = 0
                /\ ~Run(running).marked
                /\ Run(running).vid \notin files)
    /\ [][ (running.pc \in {"transcribe", "summarize"}
              /\ AdapterFailed(Run(running')))
              => /\ processed_messages' = processed_messages
                 /\ running'.pc = "return" ]_vars

C6_Witness ==
    /\ AtReturn /\ Run(running).failedAt = "transcribe"
    /\ Run(running).made /\ Run(running).nTranscribe = 1
    /\ Run(running).vid \notin processed_messages

\* C7: no stage is called twice in a run; the step in which a run fails
\* adds nothing to the ledger; a run invoked on an identifier that is not in
\* the ledger, also after an earlier run for it failed, starts with the
\* download; a failed run returns to its handler, which goes on
C7_NoRetryStaysEligible ==
    [][ /\ \A r \in {running'.auto, running'.cmd} :
             /\ r.nDownload <= 1 /\ r.nTranscribe <= 1 /\ r.nSummarize <= 1
             /\ r.nSend <= 1 /\ r.nForward <= 1
             /\ r.outcome = "failed" => ~r.marked
        /\ (InPipeline(running) /\ Run(running).outcome = "running"
              /\ Run(running').outcome = "failed")
             => processed_messages' = processed_messages
        /\ (running.pc = "process_voice_message"
              /\ Run(running).vid \notin processed_messages)
             => /\ running' = Idle
                /\ BagIn(WithRun(At(running, "download_media"),
                                 [Run(running) EXCEPT !.nDownload = 1]),
                         suspended')
        /\ (AtReturn /\ Run(running).outcome = "failed")
             => /\ ~running'.crashed
                /\ running'.pc \in {"handle_command_mode", "handler_end"}
      ]_vars

C7_Witness ==
    /\ AtReturn /\ Run(running).afterFail /\ ~Run(running).seen
    /\ Run(running).outcome = "done" /\ Run(running).nDownload = 1

\* C8: every pipeline invocation of the Command Listener has forward = false
\* and the chat of the command message as destination
C8_CommandNeverForwards ==
    \A t \in Tasks :
        t.cmd.outcome # "none"
           => /\ ~t.cmd.fwd
              /\ t.cmd.dest = t.ev.chat_id
              /\ t.cmd.nForward = 0
              /\ t.cmd.forwarded = 0

C8_Witness ==
    /\ AtReturn /\ running.mode = "cmd" /\ running.cmd.outcome = "done"
    /\ FORWARD_VOICE_MESSAGE
    /\ DESTINATION_CHAT_ID # running.ev.chat_id

\* C9: a keyword reply whose replied-to message is missing or not a voice
\* message gets exactly one guidance reply call in its own chat; the Command
\* Listener does not invoke the pipeline for it and its steps leave the
\* ledger and the files unchanged
C9_GuidanceOnly ==
    /\ [](\A t \in Tasks :
            t.replied = "other"
               => /\ t.nGuidance = 1
                  /\ t.guidance <= 1
                  /\ t.cmd = NoRun
                  /\ t.mode # "cmd"
                  /\ t.pc \in {"reply_guidance", "reply_error", "handler_end"}
                  /\ t.pc = "handler_end"
                       => (t.guidance = 1 \/ t.nError = 1))
    /\ [][ (\/ running.replied = "other"
            \/ running'.replied = "other"
            \/ \E t \in BagToSet(suspended') :
                  /\ t.replied = "other"
                  /\ CopiesIn(t, suspended') > CopiesIn(t, suspended))
              => /\ processed_messages' = processed_messages
                 /\ files' = files ]_vars

C9_Witness ==
    /\ running.pc = "handler_end" /\ running.replied = "other"
    /\ running.guidance = 1 /\ running.nError = 0
    /\ IsCommand(running.ev)

\* C10: the Auto Listener invokes the pipeline only for a voice message of
\* the source chat dated strictly after start_time, with the configured
\* destination and forward flag
C10_AutoFilter ==
    \A t \in Tasks :
        t.auto.outcome # "none"
           => /\ AUTO_PROCESS
              /\ t.ev.chat_id = SOURCE_CHAT_ID
              /\ t.ev.voice
              /\ t.ev.date > start_time
              /\ t.auto.vid = t.ev.id
              /\ t.auto.dest = DESTINATION_CHAT_ID
              /\ t.auto.fwd = FORWARD_VOICE_MESSAGE

\* one Auto run is downloading while a voice message of the source chat
\* dated exactly start_time has passed the listeners without a run
C10_Witness ==
    /\ \E t \in Waiters : t.pc = "download_media" /\ t.mode = "auto"
    /\ running.pc = "handler_end" /\ AUTO_PROCESS
    /\ running.ev.voice /\ running.ev.chat_id = SOURCE_CHAT_ID
    /\ running.ev.date = start_time
    /\ running.auto = NoRun

\* the spellings of the keyword that differ in case only
KeywordSpellings ==
    {<<a, b, c>> : a \in {"s", "S"}, b \in {"t", "T"}, c \in {"t", "T"}}

Spaces(n) == [i \in 1..n |-> " "]

\* x is a spelling of the keyword between two runs of blanks
IsKeywordText(x) ==
    \E i \in 0..Len(x), j \in 0..Len(x), w \in KeywordSpellings :
        x = Spaces(i) \o w \o Spaces(j)

\* handle_command_mode treats the event of the running task as a command:
\* it goes into get_reply_message
Detected ==
    /\ running' = Idle
    /\ suspended' = suspended (+) SetToBag({At(running, "get_reply_message")})

\* C11: handle_command_mode treats a message as a command exactly when it
\* is a reply and its text is the keyword in any letter case between
\* blanks: " STT ", "stt" and "Stt" match as replies, "stt!" does not, and
\* no text matches in a message that is not a reply
C11_KeywordMatch ==
    [][ running.pc = "handle_command_mode"
          => /\ Detected <=> (/\ running.ev.reply_to_msg_id # 0
                              /\ IsKeywordText(running.ev.message))
             /\ ~Detected => /\ running' = At(running, "handler_end")
                             /\ suspended' = suspended
             /\ (/\ running.ev.reply_to_msg_id # 0
                 /\ running.ev.message \in {<<" ", "S", "T", "T", " ">>,
                                            <<"s", "t", "t">>,
                                            <<"S", "t", "t">>})
                  => Detected
             /\ running.ev.message = <<"s", "t", "t", "!">> => ~Detected
             /\ running.ev.reply_to_msg_id = 0 => ~Detected ]_vars

\* the reply " STT " has been taken as a command
C11_Witness ==
    \E t \in Waiters :
        /\ t.pc = "get_reply_message"
        /\ t.ev.message = <<" ", "S", "T", "T", " ">>
        /\ t.ev.reply_to_msg_id # 0

\* the task has left the pipeline call r it made
Left(t, r) == r.outcome \in {"failed", "done", "skipped"} /\ t.pc # "return"

\* C12: when a Command run fails, or resolving the replied-to message
\* raises, the Command Listener makes the failure-notice reply before the
\* handler ends; an Auto run that fails before the delivery has sent
\* nothing, and its listener makes no reply
C12_FailureNotice ==
    \A t \in Tasks :
        /\ (t.pc = "handler_end"
              /\ (t.cmd.outcome = "failed" \/ t.replied = "raised"))
             => t.nError >= 1
        /\ (t.auto.outcome = "failed" /\ ~IsCommand(t.ev))
             => /\ t.nError = 0 /\ t.nGuidance = 0
                /\ t.auto.failedAt # "forward" => t.auto.sent = 0

\* C13 as stated: after send_message or forward_messages raised in an Auto
\* run the handler invocation has ended with an exception, and in a Command
\* run the listener has caught it and made the failure-notice reply
C13_DeliveryPropagates ==
    \A t \in Tasks :
        /\ (t.auto.failedAt \in {"send", "forward"} /\ Left(t, t.auto))
             => t.crashed
        /\ (t.cmd.failedAt \in {"send", "forward"} /\ Left(t, t.cmd))
             => t.nError >= 1

\* C13 amended: an exception of send_message or forward_messages is caught
\* by the except block of process_voice_message, which removes the temp
\* file, adds nothing to the ledger and returns normally; the calling
\* listener goes on and the handler invocation does not end with an
\* exception because of it
C13_DeliveryCaught ==
    /\ [](\A t \in Tasks :
            \A r \in {t.auto, t.cmd} :
               (r.failedAt \in {"send", "forward"} /\ r.outcome # "running")
                  => /\ r.outcome = "failed"
                     /\ ~r.marked
                     /\ ~t.crashed
                     /\ t.nError = 0)
    /\ [][ (running.pc = "except"
              /\ Run(running).failedAt \in {"send", "forward"})
              => /\ running'.pc = "return"
                 /\ Run(running').outcome = "failed"
                 /\ Run(running).vid \notin files'
                 /\ processed_messages' = processed_messages ]_vars
    /\ [][ (running.pc = "return"
              /\ Run(running).failedAt \in {"send", "forward"})
              => /\ ~running'.crashed
                 /\ running'.pc = IF running.mode = "auto"
                                  THEN "handle_command_mode"
                                  ELSE "handler_end" ]_vars

\* an Auto run whose send_message raised has returned and the handlers of
\* its event have ended normally
C13_Witness ==
    /\ running.pc = "handler_end"
    /\ running.auto.failedAt = "send" /\ running.auto.outcome = "failed"
    /\ ~running.crashed

\* C14: with AUTO_PROCESS off no task is ever in handle_auto_mode and no
\* Auto run exists, so a pipeline run is started by a keyword reply only;
\* whatever AUTO_PROCESS is, handle_command_mode takes every keyword reply
\* as a command and calls the pipeline when the replied-to message is a
\* voice message
C14_CommandOnly ==
    /\ [](\A t \in Tasks :
            /\ t.pc = "handle_auto_mode"
                 => (AUTO_PROCESS /\ t.ev.chat_id = SOURCE_CHAT_ID)
            /\ ~AUTO_PROCESS => t.auto = NoRun
            /\ t.cmd.outcome # "none" => IsCommand(t.ev))
    /\ [][ /\ (nEvents' # nEvents /\ ~AUTO_PROCESS)
                => running'.pc = "handle_command_mode"
           /\ (running.pc = "handle_command_mode" /\ IsCommand(running.ev))
                => Detected
           /\ (running = Idle /\ running'.replied = "voice"
                 /\ running'.cmd.nDownload = 0)
                => /\ running'.pc = "process_voice_message"
                   /\ running'.cmd.outcome = "running"
                   /\ running'.cmd.vid = running'.ev.reply_to_msg_id ]_vars

\* with AUTO_PROCESS off a voice message of the source chat dated after
\* start_time has passed the listeners without a run, while the run of a
\* keyword reply is in progress
C14_Witness ==
    /\ ~AUTO_PROCESS
    /\ running.pc = "handler_end" /\ running.ev.voice
    /\ running.ev.chat_id = SOURCE_CHAT_ID /\ running.ev.date > start_time
    /\ running.auto = NoRun /\ running.cmd = NoRun
    /\ \E t \in Waiters : t.cmd.outcome = "running" /\ t.cmd.nDownload = 1

\* C15: in every run a stage is entered only after the stage before it has
\* succeeded (download, transcribe, summarize, send, forward when fwd), a
\* run that is done has made every stage exactly once (the forward exactly
\* when fwd), and the step that adds the identifier to the ledger is taken
\* after the file was removed and after the deliveries
C15_StageOrder ==
    /\ [](\A r \in AllRuns :
            /\ r.made => r.nDownload = 1
            /\ r.nTranscribe >= 1 => (r.nDownload = 1 /\ r.made)
            /\ r.nSummarize >= 1
                 => (r.nTranscribe = 1 /\ Truthy(r.transcription))
            /\ r.nSend >= 1 => (r.nSummarize = 1 /\ Truthy(r.summary))
            /\ r.nForward >= 1 => (r.fwd /\ r.sent = 1)
            /\ r.forwarded >= 1 => r.nForward = 1
            /\ r.marked => r.outcome = "done"
            /\ r.outcome = "done"
                 => /\ r.nDownload = 1 /\ r.nTranscribe = 1
                    /\ r.nSummarize = 1 /\ r.nSend = 1 /\ r.sent = 1
                    /\ r.nForward = (IF r.fwd THEN 1 ELSE 0)
                    /\ r.forwarded = r.nForward
                    /\ r.marked)
    /\ [][ processed_messages' # processed_messages
             => /\ Run(running).vid \notin files
                /\ files' = files
                /\ Run(running).sent = 1
                /\ Run(running).fwd => Run(running).forwarded = 1 ]_vars
    /\ [][ files' # files
             => (~Run(running).marked /\ ~Run(running').marked) ]_vars

\* a run with forward has sent, forwarded and removed its file and is about
\* to add its identifier to the ledger
C15_Witness ==
    /\ running.pc = "mark" /\ Run(running).fwd
    /\ Run(running).sent = 1 /\ Run(running).forwarded = 1
    /\ Run(running).made /\ Run(running).vid \notin files
    /\ Run(running).vid \notin processed_messages

\* no handler invocation is in progress
Quiescent == running = Idle /\ suspended = EmptyBag

\* C16: if every awaited call eventually returns or raises, every handler
\* invocation returns: whenever tasks are in progress, a state follows in
\* which none is, so no run stays in a stage forever, and a task that has
\* left its pipeline call has left it as done, skipped or failed
C16_Terminates ==
    /\ ~Quiescent ~> Quiescent
    /\ [](\A t \in Tasks : \A r \in {t.auto, t.cmd} :
            (r.outcome # "none" /\ t.pc \in {"return", "handle_command_mode",
                                             "handler_end"})
               => r.outcome \in {"done", "skipped", "failed"})

\* the handlers of an event have returned after its run failed at the
\* forward
C16_Witness ==
    /\ Quiescent /\ nEvents >= 1
    /\ processed_messages = {} /\ failedIds # {} /\ FORWARD_VOICE_MESSAGE

\* C17: the ledger holds identifiers only and never loses one; a Command
\* run invoked on an identifier that is in the ledger, whatever the chat of
\* the command and whoever marked it, is skipped: it makes no call, sends no
\* summary, and its listener makes no guidance or failure reply
C17_GateById ==
    /\ [](\A t \in Tasks :
            t.cmd.seen
               => /\ Untouched(t.cmd)
                  /\ t.nGuidance = 0 /\ t.nError = 0
                  /\ ~t.crashed
                  /\ t.pc \in {"process_voice_message", "return",
                               "handler_end"})
    /\ [][ /\ processed_messages \subseteq processed_messages'
           /\ (running = Idle /\ running'.pc = "process_voice_message"
                 /\ running'.mode = "cmd")
                => running'.cmd.seen
                      = (running'.ev.reply_to_msg_id \in processed_messages)
           /\ (running.pc = "process_voice_message" /\ running.mode = "cmd"
                 /\ running.cmd.seen)
                => /\ running' = WithRun(At(running, "return"),
                                         [running.cmd EXCEPT
                                             !.outcome = "skipped"])
                   /\ UNCHANGED <<processed_messages, files, suspended>>
         ]_vars

\* a keyword reply in another chat than the source chat, on an identifier
\* already in the ledger, has been skipped
C17_Witness ==
    /\ AtReturn /\ running.mode = "cmd" /\ running.cmd.seen
    /\ running.cmd.outcome = "skipped"
    /\ running.ev.chat_id # SOURCE_CHAT_ID
    /\ AUTO_PROCESS /\ DESTINATION_CHAT_ID = SOURCE_CHAT_ID

\* the event of task t is a message the client posted itself
IsOwnPost(t) == t.ev.id > MaxId

C19_EmptyIsFailure ==
    /\ [](\A r \in AllRuns :
            /\ (r.nTranscribe >= 1 /\ r.transcription = "")
                 => (r.outcome = "failed" /\ r.failedAt = "transcribe"
                     /\ r.nSummarize = 0)
            /\ (r.nSummarize >= 1 /\ r.summary = "")
                 => (r.outcome = "failed" /\ r.failedAt = "summarize")
            /\ ((r.nTranscribe >= 1 /\ r.transcription = "")
                  \/ (r.nSummarize >= 1 /\ r.summary = ""))
                 => /\ r.nSend = 0 /\ r.sent = 0
                    /\ r.nForward = 0 /\ r.forwarded = 0
                    /\ ~r.marked)
    /\ [][ (\/ running.pc = "transcribe" /\ Run(running').transcription = ""
            \/ running.pc = "summarize" /\ Run(running').summary = "")
              => /\ running'.pc = "return"
                 /\ files' = files \ {Run(running).vid}
                 /\ processed_messages' = processed_messages
                 /\ suspended' = suspended ]_vars

\* the summarization adapter returned "" and the run has ended
C19_Witness ==
    /\ AtReturn /\ Run(running).nSummarize = 1 /\ Run(running).summary = ""
    /\ Run(running).transcription = "text"
    /\ Run(running).made /\ Run(running).vid \notin files

====
